---- MODULE Spec2Model ----
(***************************************************************************)
(* A model of shtoolkit's coefficient series (SpharmCoeff) and replacement *)
(* table (ReplaceCoeff), src/src/shtoolkit/shcoeff.py.                     *)
(*                                                                         *)
(* Arrays live in a heap (reference -> array), so that a method that       *)
(* writes in place into an array it did not copy is visible as a change of *)
(* the object that owns the array.  Epochs are decimal years counted in    *)
(* hundredths of a year (2018.05 is 201805) and coefficient values are     *)
(* integers; NaN is a value of its own that every arithmetic operation     *)
(* propagates and every comparison answers FALSE on, as IEEE floats do.    *)
(***************************************************************************)
EXTENDS Integers, Sequences, FiniteSets, TLC

VARIABLES heap, objs, tab, cur, fuel, hist, last

vars == <<heap, objs, tab, cur, fuel, hist, last>>

\* ------------------------------------------------------------------ bounds
\* the longest epoch sequence of an input series or table
MaxLen == 2
\* the number of calls made in one run
MaxSteps == 2

\* --------------------------------------------------------- program constants
\* 0.05 years, the tolerance of the nearest-epoch search
TightTol == 5
\* 0.5 years, atol of np.allclose on the exact path
LooseTol == 50
\* numpy's default rtol of np.allclose is 1e-5: 1 / RtolInv
RtolInv == 100000
\* the year 2018, before which the degree-3 zonal term is not replaced
Cutover == 201800

\* ------------------------------------------------------------------- floats
NaN == -999999999

IsNaN(x) == x = NaN

FAdd(a, b) == IF IsNaN(a) \/ IsNaN(b) THEN NaN ELSE a + b

FSub(a, b) == IF IsNaN(a) \/ IsNaN(b) THEN NaN ELSE a - b

FMul(a, b) == IF IsNaN(a) \/ IsNaN(b) THEN NaN ELSE a * b

\* a quotient by a count (a mean); by zero it is NaN, as 0/0 is
FDivN(a, n) == IF IsNaN(a) \/ n = 0 THEN NaN ELSE a \div n

FAbs(a) == IF IsNaN(a) THEN NaN ELSE IF a < 0 THEN 0 - a ELSE a

FLt(a, b) == ~IsNaN(a) /\ ~IsNaN(b) /\ a < b

FGt(a, b) == ~IsNaN(a) /\ ~IsNaN(b) /\ a > b

FLe(a, b) == ~IsNaN(a) /\ ~IsNaN(b) /\ a <= b

Indices(s) == 1..Len(s)

\* np.min of a non-empty 1-D array: NaN as soon as one entry is NaN
NpMin(r) ==
    IF \E j \in Indices(r) : IsNaN(r[j]) THEN NaN
    ELSE CHOOSE m \in {r[j] : j \in Indices(r)} : \A j \in Indices(r) : m <= r[j]

\* np.argmin: the first NaN if there is one, else the first minimum (0-based
\* in numpy, 1-based here)
NpArgMin(r) ==
    IF \E j \in Indices(r) : IsNaN(r[j])
    THEN CHOOSE j \in Indices(r) : IsNaN(r[j]) /\ \A k \in 1..(j - 1) : ~IsNaN(r[k])
    ELSE CHOOSE j \in Indices(r) :
            /\ \A k \in Indices(r) : r[j] <= r[k]
            /\ \A k \in 1..(j - 1) : r[k] > r[j]

AllNaN(r) == \A j \in Indices(r) : IsNaN(r[j])

\* np.nanmin of a non-empty array: the minimum of the entries that are not
\* NaN, and NaN (with a warning) when every entry is
NpNanMin(r) ==
    IF AllNaN(r) THEN NaN
    ELSE CHOOSE m \in {r[j] : j \in {k \in Indices(r) : ~IsNaN(r[k])}} :
            \A j \in Indices(r) : IsNaN(r[j]) \/ m <= r[j]

\* np.nanargmin of an array with an entry that is not NaN: the first minimum
\* among those entries
NpNanArgMin(r) ==
    CHOOSE j \in Indices(r) :
        /\ ~IsNaN(r[j])
        /\ \A k \in Indices(r) : IsNaN(r[k]) \/ r[j] <= r[k]
        /\ \A k \in 1..(j - 1) : IsNaN(r[k]) \/ r[k] > r[j]

\* np.abs(R - t)
Residual(R, t) == [j \in Indices(R) |-> FAbs(FSub(R[j], t))]

\* np.allclose(a, b, atol=0.5) on two 1-D arrays of one length:
\* |a - b| <= atol + rtol * |b| everywhere, and FALSE with a NaN
AllClose(a, b) ==
    \A j \in Indices(a) :
        /\ ~IsNaN(a[j])
        /\ ~IsNaN(b[j])
        /\ RtolInv * FAbs(a[j] - b[j]) <= RtolInv * LooseTol + FAbs(b[j])

\* the order np.argsort and np.sort put floats in: NaN last
SortsBefore(e, i, j) ==
    \/ ~IsNaN(e[i]) /\ (IsNaN(e[j]) \/ e[i] < e[j])
    \/ (e[i] = e[j]) /\ i < j

\* np.argsort(e): the arrays sorted here are short, and numpy sorts short
\* arrays by insertion, which keeps ties in their order
ArgSort(e) ==
    [k \in Indices(e) |->
        CHOOSE i \in Indices(e) :
            Cardinality({j \in Indices(e) : SortsBefore(e, j, i)}) = k - 1]

\* np.sort(e)
NpSort(e) == [k \in Indices(e) |-> e[ArgSort(e)[k]]]

\* ------------------------------------------------------------------- arrays
\* An array is its shape and its data: a batch of grids (4-D) is a sequence of
\* grids, a grid (3-D) a function of its cells, a 1-D or 2-D array a sequence.
Arr(shape, data) == [shape |-> shape, data |-> data]

Cells(l) == {0, 1} \X (0..l) \X (0..l)

GridShape(l) == <<2, l + 1, l + 1>>

Tail1(s) == SubSeq(s, 2, Len(s))

\* elementwise operations of two grids of one shape
GridAdd(g, k) == [c \in DOMAIN g |-> FAdd(g[c], k[c])]

GridSub(g, k) == [c \in DOMAIN g |-> FSub(g[c], k[c])]

GridMul(g, k) == [c \in DOMAIN g |-> FMul(g[c], k[c])]

GridScale(g, x) == [c \in DOMAIN g |-> FMul(g[c], x)]

RECURSIVE GridSum(_, _)
GridSum(gs, l) ==
    IF Len(gs) = 0 THEN [c \in Cells(l) |-> 0]
    ELSE GridAdd(gs[1], GridSum(Tail(gs), l))

\* a.mean(axis=0) of a batch of grids
GridMean(gs, l) == [c \in Cells(l) |-> FDivN(GridSum(gs, l)[c], Len(gs))]

\* --------------------------------------------------------------------- heap
NoRef == 0

NewRef(h) == CHOOSE r \in 1..(Cardinality(DOMAIN h) + 1) : r \notin DOMAIN h

Put(h, r, a) == [x \in DOMAIN h \cup {r} |-> IF x = r THEN a ELSE h[x]]

Collect(h, roots) == [r \in DOMAIN h \cap roots |-> h[r]]

\* ------------------------------------------------------------------ objects
\* A str-or-None attribute: None, or the lines of the string, each line the
\* pair <<a, b>> that the code formats as "a: b\n".
NoneStr == [none |-> TRUE, s |-> <<>>]

Str(lines) == [none |-> FALSE, s |-> lines]

\* s += "a: b\n"
StrAppend(n, line) == Str(Append(n.s, line))

\* the result of a call: the heap it leaves, the exception it raised ("" when
\* it returned), the series it returned, and how many replacement tables it
\* built and how many times it ran apply_to
NoObj ==
    [coeffs |-> NoRef, epochs |-> NoRef, errors |-> NoRef, unit |-> "",
     error_kind |-> NoneStr, name |-> NoneStr, lmax |-> 0]

Raise(h, exc) == [h |-> h, exc |-> exc, obj |-> NoObj, built |-> 0, applied |-> 0]

Return(h, obj) == [h |-> h, exc |-> "", obj |-> obj, built |-> 0, applied |-> 0]

\* an epochs argument of the constructor: an ndarray (a reference) or a float
EpArr(r) == [isArr |-> TRUE, ref |-> r, val |-> 0]

EpFloat(v) == [isArr |-> FALSE, ref |-> NoRef, val |-> v]

\* c[np.newaxis]
NewAxis(a) == Arr(<<1>> \o a.shape, <<a.data>>)

\* the constructor without the check of the number of epochs
SpharmCoeffInit_NoCount(h, coeffs, epochs, unit, errors, error_kind, name) ==
    LET c  == h[coeffs]
        nd == Len(c.shape)
    IN  IF errors # NoRef /\ c.shape # h[errors].shape THEN Raise(h, "ValueError")
        ELSE IF nd \notin {3, 4} THEN Raise(h, "ValueError")
        ELSE
        LET rc == NewRef(h)
            h1 == Put(h, rc, IF nd = 4 THEN c ELSE NewAxis(c))
            re == IF errors = NoRef THEN NoRef ELSE NewRef(h1)
            h2 == IF errors = NoRef THEN h1
                  ELSE Put(h1, re, IF nd = 4 THEN h[errors] ELSE NewAxis(h[errors]))
            rp == NewRef(h2)
            h3 == Put(h2, rp, IF epochs.isArr THEN h[epochs.ref]
                              ELSE Arr(<<1>>, <<epochs.val>>))
        IN  Return(h3, [coeffs |-> rc, epochs |-> rp, errors |-> re,
                        unit |-> unit, error_kind |-> error_kind, name |-> name,
                        lmax |-> c.shape[Len(c.shape) - 1] - 1])

\* SpharmCoeff.__init__
SpharmCoeffInit(h, coeffs, epochs, unit, errors, error_kind, name) ==
    LET c  == h[coeffs]
        nd == Len(c.shape)
    IN  IF errors # NoRef /\ c.shape # h[errors].shape THEN Raise(h, "ValueError")
        ELSE IF nd \notin {3, 4} THEN Raise(h, "ValueError")
        ELSE
        LET rc == NewRef(h)
            h1 == Put(h, rc, IF nd = 4 THEN c ELSE NewAxis(c))
            re == IF errors = NoRef THEN NoRef ELSE NewRef(h1)
            h2 == IF errors = NoRef THEN h1
                  ELSE Put(h1, re, IF nd = 4 THEN h[errors] ELSE NewAxis(h[errors]))
            rp == NewRef(h2)
            h3 == Put(h2, rp, IF epochs.isArr THEN h[epochs.ref]
                              ELSE Arr(<<1>>, <<epochs.val>>))
        IN  IF h3[rc].shape[1] # h3[rp].shape[1] THEN Raise(h3, "ValueError")
            ELSE Return(h3, [coeffs |-> rc, epochs |-> rp, errors |-> re,
                             unit |-> unit, error_kind |-> error_kind, name |-> name,
                             lmax |-> c.shape[Len(c.shape) - 1] - 1])

\* copy.deepcopy(self.__dict__), and the keyword arguments made of it
DeepcopyDict(h, s) ==
    LET rc == NewRef(h)
        h1 == Put(h, rc, h[s.coeffs])
        rp == NewRef(h1)
        h2 == Put(h1, rp, h[s.epochs])
        re == IF s.errors = NoRef THEN NoRef ELSE NewRef(h2)
        h3 == IF s.errors = NoRef THEN h2 ELSE Put(h2, re, h[s.errors])
    IN  [h |-> h3,
         attr |-> [s EXCEPT !.coeffs = rc, !.epochs = rp, !.errors = re]]

\* SpharmCoeff(**sphcoef_attr)
FromAttr(h, attr) ==
    SpharmCoeffInit(h, attr.coeffs, EpArr(attr.epochs), attr.unit, attr.errors,
                    attr.error_kind, attr.name)

\* a new array on the heap: <<heap, reference>>
Alloc(h, a) == [h |-> Put(h, NewRef(h), a), r |-> NewRef(h)]

\* no copy: the array itself
NpCopy_Alias(h, r) == [h |-> h, r |-> r]

\* np.copy(a) and copy.deepcopy(a) of an array: a new array
NpCopy(h, r) == Alloc(h, h[r])

\* SpharmCoeff.__len__
SeriesLen(h, s) ==
    IF Len(h[s.coeffs].shape) = 3 THEN 1 ELSE h[s.coeffs].shape[1]

\* a[idx] for a sequence idx of positions along the first axis
Take(a, idx) ==
    Arr(<<Len(idx)>> \o Tail1(a.shape), [k \in Indices(idx) |-> a.data[idx[k]]])

\* SpharmCoeff.sort
Sort(h, s) ==
    LET order == ArgSort(h[s.epochs].data)
        cs == Alloc(h, Take(h[s.coeffs], order))
        es == IF s.errors # NoRef THEN Alloc(cs.h, Take(h[s.errors], order))
              ELSE [h |-> cs.h, r |-> NoRef]
        ps == Alloc(es.h, Arr(h[s.epochs].shape, NpSort(h[s.epochs].data)))
        d  == DeepcopyDict(ps.h, s)
    IN  IF s.errors = NoRef THEN Raise(d.h, "UnboundLocalError")
        ELSE FromAttr(d.h, [d.attr EXCEPT !.coeffs = cs.r, !.errors = es.r,
                                          !.epochs = ps.r])

\* SpharmCoeff.remove_mean_field
RemoveMeanField(h, s) ==
    LET a    == h[s.coeffs]
        mean == GridMean(a.data, s.lmax)
        cs   == Alloc(h, Arr(a.shape, [i \in Indices(a.data) |-> GridSub(a.data[i], mean)]))
        d    == DeepcopyDict(cs.h, s)
    IN  FromAttr(d.h, [d.attr EXCEPT !.coeffs = cs.r])

\* shfilter.gauss_smooth and shfilter.fan_smooth: a weight per degree and
\* order that falls with the degree (and, for the fan filter, the order)
SmoothKinds == {"gauss", "fan"}

SmoothWeight(kind, l, radius) ==
    [c \in Cells(l) |->
        IF kind = "gauss" THEN radius + l - c[2]
        ELSE (radius + l - c[2]) * (radius + l - c[3])]

\* SpharmCoeff.smooth
Smooth(h, s, kind, radius) ==
    IF kind \notin SmoothKinds THEN Raise(h, "UnboundLocalError")
    ELSE
    LET a  == h[s.coeffs]
        w  == SmoothWeight(kind, s.lmax, radius)
        cs == Alloc(h, Arr(a.shape, [i \in Indices(a.data) |-> GridMul(a.data[i], w)]))
        d  == DeepcopyDict(cs.h, s)
    IN  FromAttr(d.h, [d.attr EXCEPT !.coeffs = cs.r])

\* shtype.SpharmUnit
SpharmUnit ==
    {"mmewh", "mewh", "kmewh", "mmgeo", "mgeo", "kmgeo", "mmupl", "mupl", "kmupl",
     "kgm2mass", "stokes"}

\* shunit.convert: the coefficients scaled from the old unit to the new one
UnitScale(u) ==
    CASE u = "stokes" -> 1
      [] u \in {"mmewh", "mmgeo", "mmupl", "kgm2mass"} -> 6
      [] u \in {"mewh", "mgeo", "mupl"} -> 3
      [] OTHER -> 2

Convert(a, unit, new_unit) ==
    Arr(a.shape, [i \in Indices(a.data) |->
        [c \in DOMAIN a.data[i] |->
            FDivN(FMul(a.data[i][c], UnitScale(new_unit)), UnitScale(unit))]])

\* SpharmCoeff.unitconvert
UnitConvert(h, s, new_unit) ==
    LET cs == Alloc(h, Convert(h[s.coeffs], s.unit, new_unit))
        d  == DeepcopyDict(cs.h, s)
    IN  FromAttr(d.h, [d.attr EXCEPT !.coeffs = cs.r, !.unit = new_unit])

\* shtype.GIAModel
GIAModel == {"ICE6G-D", "ICE6G-C", "C18"}

\* shload.read_gia_model: the rate grid of a model, per year
ReadGiaModel(l, modelname) ==
    [c \in Cells(l) |-> (IF modelname = "C18" THEN 2 ELSE 1) * (1 + c[2] + c[3])]

\* SpharmCoeff.corr_gia
CorrGia(h, s, modelname, mode) ==
    IF mode \notin {"add", "subtract"} THEN Raise(h, "ValueError")
    ELSE
    LET a     == h[s.coeffs]
        trend == ReadGiaModel(s.lmax, modelname)
        eps   == h[s.epochs].data
        proj  == [i \in Indices(eps) |-> GridScale(trend, eps[i])]
        mean  == GridMean(proj, s.lmax)
        gia   == [i \in Indices(eps) |-> GridSub(proj[i], mean)]
        name  == IF mode = "subtract" /\ ~s.name.none
                 THEN StrAppend(s.name, <<"GIA", modelname>>) ELSE s.name
        cs    == Alloc(h, Arr(a.shape, [i \in Indices(a.data) |->
                    IF mode = "subtract" THEN GridSub(a.data[i], gia[i])
                    ELSE GridAdd(a.data[i], gia[i])]))
        d     == DeepcopyDict(cs.h, s)
    IN  FromAttr(d.h, [d.attr EXCEPT !.coeffs = cs.r, !.name = name])

\* an index of __getitem__: an int i (negative from the end), or the slice
\* lo:hi
IntIndex(i) == [int |-> TRUE, i |-> i, lo |-> 0, hi |-> 0]

SliceIndex(lo, hi) == [int |-> FALSE, i |-> 0, lo |-> lo, hi |-> hi]

Min2(a, b) == IF a < b THEN a ELSE b

\* a[index] along the first axis of an array that has the index
Item(a, index) ==
    IF index.int
    THEN Arr(Tail1(a.shape),
             a.data[IF index.i < 0 THEN a.shape[1] + index.i + 1 ELSE index.i + 1])
    ELSE LET lo == Min2(index.lo, a.shape[1])
             hi == Min2(index.hi, a.shape[1])
             n  == IF hi > lo THEN hi - lo ELSE 0
         IN  Arr(<<n>> \o Tail1(a.shape), [k \in 1..n |-> a.data[lo + k]])

\* SpharmCoeff.__getitem__
GetItem(h, s, index) ==
    LET d == DeepcopyDict(h, s)
        n == h[s.coeffs].shape[1]
    IN  IF index.int /\ (index.i >= n \/ index.i < 0 - n) THEN Raise(d.h, "IndexError")
        ELSE
        LET cs == Alloc(d.h, Item(d.h[d.attr.coeffs], index))
            ps == Alloc(cs.h, IF index.int
                              THEN Arr(<<1>>, <<Item(d.h[d.attr.epochs], index).data>>)
                              ELSE Item(d.h[d.attr.epochs], index))
            es == IF d.attr.errors # NoRef
                  THEN Alloc(ps.h, Item(d.h[d.attr.errors], index))
                  ELSE [h |-> ps.h, r |-> NoRef]
        IN  FromAttr(es.h, [d.attr EXCEPT !.coeffs = cs.r, !.epochs = ps.r,
                                          !.errors = es.r])

\* ----------------------------------------------------------------- combine
\* a[idx] = g, in place
WriteGrid(h, r, idx, g) == [h EXCEPT ![r].data[idx] = g]

\* np.min(residual) < 0.05
CombineMatch(residual) == FLt(NpMin(residual), TightTol)

\* the loop of the matched path over the epochs of self, from position idx on:
\* the heap, the exception of np.min on an empty array, and the count
RECURSIVE CombineLoop(_, _, _, _, _, _, _)
CombineLoop(h, s, o, c, minus, idx, count) ==
    IF idx > Len(h[s.epochs].data) THEN [h |-> h, exc |-> "", count |-> count]
    ELSE
    LET residual == Residual(h[o.epochs].data, h[s.epochs].data[idx])
    IN  IF Len(residual) = 0 THEN [h |-> h, exc |-> "ValueError", count |-> count]
        ELSE IF CombineMatch(residual)
        THEN LET g == h[o.coeffs].data[NpArgMin(residual)]
                 h1 == WriteGrid(h, c, idx, IF minus THEN GridSub(h[c].data[idx], g)
                                            ELSE GridAdd(h[c].data[idx], g))
             IN  CombineLoop(h1, s, o, c, minus, idx + 1, count + 1)
        ELSE CombineLoop(h, s, o, c, minus, idx + 1, count)

\* Matched without the check of the count
Matched_NoCount(h, s, o, minus) ==
    LET c    == NpCopy(h, s.coeffs)
        loop == CombineLoop(c.h, s, o, c.r, minus, 1, 0)
    IN  IF loop.exc # "" THEN Raise(loop.h, loop.exc)
        ELSE LET d == DeepcopyDict(loop.h, s)
             IN  FromAttr(d.h, [d.attr EXCEPT !.coeffs = c.r])

\* the matched path of __add__ and __sub__ and what follows it
Matched(h, s, o, minus) ==
    LET c    == NpCopy(h, s.coeffs)
        loop == CombineLoop(c.h, s, o, c.r, minus, 1, 0)
    IN  IF loop.exc # "" THEN Raise(loop.h, loop.exc)
        ELSE IF loop.count # Len(loop.h[s.epochs].data) THEN Raise(loop.h, "ValueError")
        ELSE LET d == DeepcopyDict(loop.h, s)
             IN  FromAttr(d.h, [d.attr EXCEPT !.coeffs = c.r])

\* self.coeffs.shape == other.coeffs.shape and np.allclose(self.epochs, other.epochs, atol=0.5)
ExactPath(h, s, o) ==
    /\ h[s.coeffs].shape = h[o.coeffs].shape
    /\ AllClose(h[s.epochs].data, h[o.epochs].data)

\* self.coeffs.shape[1:] == other.coeffs.shape[1:]
MatchedPath(h, s, o) ==
    /\ ~ExactPath(h, s, o)
    /\ Tail1(h[s.coeffs].shape) = Tail1(h[o.coeffs].shape)

\* SpharmCoeff.__add__; isSeries is isinstance(other, SpharmCoeff)
Add(h, s, o, isSeries) ==
    IF ~isSeries THEN Raise(h, "NotImplementedError")
    ELSE IF ExactPath(h, s, o)
    THEN LET a  == h[s.coeffs]
             cs == Alloc(h, Arr(a.shape, [i \in Indices(a.data) |->
                       GridAdd(a.data[i], h[o.coeffs].data[i])]))
             d  == DeepcopyDict(cs.h, s)
         IN  FromAttr(d.h, [d.attr EXCEPT !.coeffs = cs.r])
    ELSE IF MatchedPath(h, s, o) THEN Matched(h, s, o, FALSE)
    ELSE Raise(DeepcopyDict(h, s).h, "UnboundLocalError")

\* SpharmCoeff.__sub__
Sub(h, s, o, isSeries) ==
    IF ~isSeries THEN Raise(h, "NotImplementedError")
    ELSE IF ExactPath(h, s, o)
    THEN LET a  == h[s.coeffs]
             cs == Alloc(h, Arr(a.shape, [i \in Indices(a.data) |->
                       GridAdd(a.data[i], h[o.coeffs].data[i])]))
             d  == DeepcopyDict(cs.h, s)
         IN  FromAttr(d.h, [d.attr EXCEPT !.coeffs = cs.r])
    ELSE IF MatchedPath(h, s, o) THEN Matched(h, s, o, TRUE)
    ELSE Raise(DeepcopyDict(h, s).h, "UnboundLocalError")

\* ------------------------------------------------------------- ReplaceCoeff
\* The indice of a table as numpy reads it in coeffs[ori_idx, *indice]: one
\* index per axis (type, degree, order), each a scalar, or each a sequence
\* that picks several cells at once.
ScalarIndice(t, d, o) == [scalar |-> TRUE, ax |-> <<<<t>>, <<d>>, <<o>>>>]

\* the three cells without the zip
ZipIndice_NoZip(c1, c2, c3) == [scalar |-> FALSE, ax |-> <<c1, c2, c3>>]

\* tuple(zip(c1, c2, c3)) of three cells: the transpose
ZipIndice(c1, c2, c3) ==
    [scalar |-> FALSE,
     ax |-> <<<<c1[1], c2[1], c3[1]>>, <<c1[2], c2[2], c3[2]>>, <<c1[3], c2[3], c3[3]>>>>]

C20Indice == ScalarIndice(0, 2, 0)

C30Indice == ScalarIndice(0, 3, 0)

Deg1Indice == ZipIndice(<<0, 1, 0>>, <<0, 1, 1>>, <<1, 1, 1>>)

\* the cells that coeffs[ori_idx, *indice] addresses, in order
IndiceCells(indice) ==
    [k \in Indices(indice.ax[1]) |-> <<indice.ax[1][k], indice.ax[2][k], indice.ax[3][k]>>]

\* a name of a table: None, or a sequence of strings
NoName == [none |-> TRUE, v |-> <<>>]

SeqName(v) == [none |-> FALSE, v |-> v]

\* ReplaceCoeff.__init__
ReplaceCoeffInit(indice, coeffs, epochs, unit, errors, name) ==
    [indice |-> indice, coeffs |-> coeffs, epochs |-> epochs, unit |-> unit,
     errors |-> errors, name |-> name]

\* the cutover with t <= 2018
Exempt_Le(indice, t) == indice = C30Indice /\ FLe(t, Cutover)

\* self.indice == (0, 3, 0) and t < 2018
Exempt(indice, t) == indice = C30Indice /\ FLt(t, Cutover)

\* np.nanmin(residual) > 0.05
ReplaceMiss(residual) == FGt(NpNanMin(residual), TightTol)

\* a[ori_idx, *indice] += row
RECURSIVE WriteCells_Accumulate(_, _, _, _, _)
WriteCells_Accumulate(h, r, idx, cells, row) ==
    IF Len(cells) = 0 THEN h
    ELSE WriteCells_Accumulate(
            [h EXCEPT ![r].data[idx][cells[1]] = FAdd(h[r].data[idx][cells[1]], row[1])],
            r, idx, Tail(cells), Tail(row))

\* a[ori_idx, *indice] = row, in place: row holds one value per cell
RECURSIVE WriteCells(_, _, _, _, _)
WriteCells(h, r, idx, cells, row) ==
    IF Len(cells) = 0 THEN h
    ELSE WriteCells([h EXCEPT ![r].data[idx][cells[1]] = row[1]],
                    r, idx, Tail(cells), Tail(row))

\* the loop of apply_to over the epochs of the series, from position idx on;
\* c and e are the local coeffs and errors
RECURSIVE ApplyLoop(_, _, _, _, _, _)
ApplyLoop(h, t, s, c, e, idx) ==
    IF idx > Len(h[s.epochs].data) THEN [h |-> h, exc |-> ""]
    ELSE IF Exempt(t.indice, h[s.epochs].data[idx]) THEN ApplyLoop(h, t, s, c, e, idx + 1)
    ELSE
    LET residual == Residual(h[t.epochs].data, h[s.epochs].data[idx])
        cells    == IndiceCells(t.indice)
    IN  IF Len(residual) = 0 \/ ReplaceMiss(residual) \/ AllNaN(residual)
        THEN [h |-> h, exc |-> "ValueError"]
        ELSE IF \E k \in Indices(cells) : cells[k] \notin DOMAIN h[c].data[idx]
        THEN [h |-> h, exc |-> "IndexError"]
        ELSE
        LET rp_idx == NpNanArgMin(residual)
            h1 == WriteCells(h, c, idx, cells, h[t.coeffs].data[rp_idx])
            h2 == IF t.errors # NoRef /\ e # NoRef
                  THEN WriteCells(h1, e, idx, cells, h1[t.errors].data[rp_idx])
                  ELSE h1
        IN  ApplyLoop(h2, t, s, c, e, idx + 1)

\* the name of the series apply_to returns
ApplyName(t, s) ==
    IF ~t.name.none /\ Len(t.name.v) = 2 /\ ~s.name.none
    THEN StrAppend(s.name, <<t.name.v[1], t.name.v[2]>>)
    ELSE s.name

\* ReplaceCoeff.apply_to
ApplyTo(h, t, s) ==
    LET c    == NpCopy(h, s.coeffs)
        e    == IF s.errors # NoRef THEN NpCopy(c.h, s.errors)
                ELSE [h |-> c.h, r |-> NoRef]
        loop == ApplyLoop(e.h, t, s, c.r, e.r, 1)
    IN  IF loop.exc # "" THEN [Raise(loop.h, loop.exc) EXCEPT !.applied = 1]
        ELSE IF ~t.name.none /\ Len(t.name.v) # 2
        THEN [Raise(loop.h, "AttributeError") EXCEPT !.applied = 1]
        ELSE LET d == DeepcopyDict(loop.h, s)
             IN  [FromAttr(d.h, [d.attr EXCEPT !.coeffs = c.r, !.errors = e.r,
                                               !.name = ApplyName(t, s)])
                  EXCEPT !.applied = 1]

\* ------------------------------------------------------ technical notes
\* the keys of lowdeg_dict
LowdegKinds == {"C20", "C30", "DEG1"}

KindIndice(kind) ==
    CASE kind = "C20" -> C20Indice
      [] kind = "C30" -> C30Indice
      [] OTHER -> Deg1Indice

KindNo(kind) == CASE kind = "C20" -> 1 [] kind = "C30" -> 2 [] OTHER -> 3

\* shload.read_technical_note_c20_c30 and read_technical_note_deg1: the
\* columns of a technical note whose epoch column is eps, one row per epoch,
\* and in a row one value per replaced cell
TnValues(kind, eps) ==
    Arr(IF kind = "DEG1" THEN <<Len(eps), 3>> ELSE <<Len(eps)>>,
        [j \in Indices(eps) |->
            [k \in Indices(IndiceCells(KindIndice(kind))) |->
                50000 + 1000 * KindNo(kind) + 10 * j + k]])

TnSigmas(kind, eps) ==
    Arr(IF kind = "DEG1" THEN <<Len(eps), 3>> ELSE <<Len(eps)>>,
        [j \in Indices(eps) |->
            [k \in Indices(IndiceCells(KindIndice(kind))) |->
                70000 + 1000 * KindNo(kind) + 10 * j + k]])

TnName(kind) == SeqName(<<kind, IF kind = "DEG1" THEN "GRACE-OBP" ELSE "CSR">>)

\* ReplaceCoeff.from_technical_note_c20, _c30 and _deg1 on a note whose epoch
\* column is eps: the heap with the arrays read, and the table
FromTechnicalNote(h, kind, eps) ==
    LET p == Alloc(h, Arr(<<Len(eps)>>, eps))
        c == Alloc(p.h, TnValues(kind, eps))
        e == Alloc(c.h, TnSigmas(kind, eps))
    IN  [h |-> e.h,
         tab |-> ReplaceCoeffInit(KindIndice(kind), c.r, p.r, "stokes", e.r, TnName(kind))]

\* ------------------------------------------------------------------- rplce
\* rpname and rppath: the Python type of the argument and, of a str or a
\* sequence of str, the strings
NoArgStr == [type |-> "NoneType", v |-> <<>>]

OneStr(x) == [type |-> "str", v |-> <<x>>]

TupleStr(v) == [type |-> "tuple", v |-> v]

ListStr(v) == [type |-> "list", v |-> v]

\* the loop of rplce over a sequence rpname, from position i on; sph is the
\* series so far, eps the epoch column of the technical notes
RECURSIVE RplceLoop(_, _, _, _, _, _, _, _)
RplceLoop(h, sph, rpname, rppath, eps, i, built, applied) ==
    IF i > Len(rpname.v)
    THEN [Return(h, sph) EXCEPT !.built = built, !.applied = applied]
    ELSE IF rpname.v[i] \notin LowdegKinds
    THEN [Raise(h, "KeyError") EXCEPT !.built = built, !.applied = applied]
    ELSE IF i > Len(rppath.v)
    THEN [Raise(h, "IndexError") EXCEPT !.built = built, !.applied = applied]
    ELSE
    LET b   == FromTechnicalNote(h, rpname.v[i], eps)
        out == ApplyTo(b.h, b.tab, sph)
    IN  IF out.exc # ""
        THEN [out EXCEPT !.built = built + 1, !.applied = applied + 1]
        ELSE RplceLoop(out.h, out.obj, rpname, rppath, eps, i + 1, built + 1, applied + 1)

\* SpharmCoeff.rplce past the check of the unit; rpcoef is TRUE when the table
\* t is passed as rpcoef
RplceBody(h, s, t, rpname, rppath, rpcoef) ==
    LET d == DeepcopyDict(h, s)
    IN  IF rpcoef THEN ApplyTo(d.h, t, s)
        ELSE IF rpname.type = "NoneType" \/ rppath.type = "NoneType"
        THEN Raise(d.h, "ValueError")
        ELSE IF rpname.type # rppath.type THEN Raise(d.h, "ValueError")
        ELSE IF rpname.type = "str"
        THEN IF rpname.v[1] \notin LowdegKinds THEN Raise(d.h, "KeyError")
             ELSE LET b == FromTechnicalNote(d.h, rpname.v[1], h[t.epochs].data)
                  IN  [ApplyTo(b.h, b.tab, d.attr) EXCEPT !.built = 1]
        ELSE RplceLoop(d.h, d.attr, rpname, rppath, h[t.epochs].data, 1, 0, 0)

\* rplce without the check of the unit
Rplce_NoUnitCheck(h, s, t, rpname, rppath, rpcoef) ==
    RplceBody(h, s, t, rpname, rppath, rpcoef)

\* SpharmCoeff.rplce
Rplce(h, s, t, rpname, rppath, rpcoef) ==
    IF s.unit # "stokes" THEN Raise(h, "AttributeError")
    ELSE RplceBody(h, s, t, rpname, rppath, rpcoef)

\* ------------------------------------------------------------------ inputs
\* a grid whose cells all differ, and a batch of n such grids that all differ
MkGrid(l, base) == [c \in Cells(l) |-> base + 100 * c[1] + 10 * c[2] + c[3]]

MkBatch(l, n, base) ==
    Arr(<<n>> \o GridShape(l), [i \in 1..n |-> MkGrid(l, base + 1000 * i)])

SeqsUpTo(S, n) == UNION {[1..k -> S] : k \in 1..n}

EmptyHeap == [r \in {} |-> 0]

\* a series made by the constructor of a batch, its epochs and, with err, an
\* error batch
NewSeries(h, in) ==
    LET c == Alloc(h, MkBatch(in.lmax, Len(in.eps), in.base))
        e == IF in.err THEN Alloc(c.h, MkBatch(in.lmax, Len(in.eps), in.base + 200000))
             ELSE [h |-> c.h, r |-> NoRef]
        p == Alloc(e.h, Arr(<<Len(in.eps)>>, in.eps))
    IN  SpharmCoeffInit(p.h, c.r, EpArr(p.r), in.unit, e.r, NoneStr, in.name)

SeriesIn(eps, lmax, base, err, unit, name) ==
    [eps |-> eps, lmax |-> lmax, base |-> base, err |-> err, unit |-> unit,
     name |-> name]

\* a table of the given kind over the epochs eps, with or without errors
NewTable(h, in) ==
    LET b == FromTechnicalNote(h, in.kind, in.eps)
    IN  [h |-> b.h,
         tab |-> ReplaceCoeffInit(b.tab.indice, b.tab.coeffs, b.tab.epochs, b.tab.unit,
                                  IF in.err THEN b.tab.errors ELSE NoRef, in.name)]

TableIn(kind, eps, err, name) == [kind |-> kind, eps |-> eps, err |-> err, name |-> name]

GsmName == Str(<<<<"GSM", "UTCSR">>>>)

\* ------------------------------------------------------------ state machine
\* the arrays the objects hold
SeriesRefs(s) == {s.coeffs, s.epochs, s.errors} \ {NoRef}

Roots(os, t) ==
    UNION {SeriesRefs(os[i]) : i \in DOMAIN os} \cup ({t.coeffs, t.epochs, t.errors} \ {NoRef})

\* the arguments of a call, beside the series
NoArg ==
    [kind |-> "", model |-> "", radius |-> 0, index |-> IntIndex(0),
     rpname |-> NoArgStr, rppath |-> NoArgStr, rpcoef |-> FALSE,
     cnd |-> 0, err |-> "", epn |-> 0]

NoCall ==
    [op |-> "", self |-> 0, other |-> 0, arg |-> NoArg, exc |-> "", res |-> 0,
     built |-> 0, applied |-> 0]

\* the state a program that holds the series A and B and the table is in
\* before its first call
InitWith(a, b, t, f) ==
    LET oa == NewSeries(EmptyHeap, a)
        ob == NewSeries(oa.h, b)
        nt == NewTable(ob.h, t)
    IN  /\ objs = <<oa.obj, ob.obj>>
        /\ tab = nt.tab
        /\ heap = Collect(nt.h, Roots(<<oa.obj, ob.obj>>, nt.tab))
        /\ cur = 1
        /\ fuel = f
        /\ hist = <<[op |-> "input", self |-> 0, other |-> 0, arg |-> NoArg],
                    [op |-> "input", self |-> 0, other |-> 0, arg |-> NoArg]>>
        /\ last = NoCall

\* one call: out is what the method did on the heap.  A series that is
\* returned becomes the current series, the receiver of the next call.
Step(op, self, other, arg, out) ==
    /\ fuel > 0
    /\ fuel' = fuel - 1
    /\ objs' = IF out.exc = "" THEN Append(objs, out.obj) ELSE objs
    /\ hist' = IF out.exc = ""
               THEN Append(hist, [op |-> op, self |-> self, other |-> other, arg |-> arg])
               ELSE hist
    /\ cur' = IF out.exc = "" THEN Len(objs) + 1 ELSE cur
    /\ heap' = Collect(out.h, Roots(objs', tab))
    /\ last' = [op |-> op, self |-> self, other |-> other, arg |-> arg,
                exc |-> out.exc, res |-> IF out.exc = "" THEN Len(objs) + 1 ELSE 0,
                built |-> out.built, applied |-> out.applied]
    /\ UNCHANGED tab

DoSort == Step("sort", cur, 0, NoArg, Sort(heap, objs[cur]))

DoRemoveMeanField ==
    Step("remove_mean_field", cur, 0, NoArg, RemoveMeanField(heap, objs[cur]))

DoSmooth ==
    \E kind \in SmoothKinds \cup {"box"} :
        Step("smooth", cur, 0, [NoArg EXCEPT !.kind = kind, !.radius = 3],
             Smooth(heap, objs[cur], kind, 3))

DoUnitConvert ==
    \E u \in {"stokes", "mmewh"} :
        Step("unitconvert", cur, 0, [NoArg EXCEPT !.kind = u],
             UnitConvert(heap, objs[cur], u))

DoCorrGia ==
    \E mode \in {"add", "subtract", "remove"} :
        Step("corr_gia", cur, 0, [NoArg EXCEPT !.kind = mode, !.model = "ICE6G-D"],
             CorrGia(heap, objs[cur], "ICE6G-D", mode))

DoGetItem ==
    \E index \in {IntIndex(0), IntIndex(2), SliceIndex(1, 3)} :
        Step("getitem", cur, 0, [NoArg EXCEPT !.index = index],
             GetItem(heap, objs[cur], index))

\* the other operand: the series B, the receiver itself, or (0) something
\* that is no series
Others == {0, 2, cur}

DoAdd ==
    \E o \in Others :
        Step("add", cur, o, NoArg, Add(heap, objs[cur], objs[IF o = 0 THEN cur ELSE o], o # 0))

DoSub ==
    \E o \in Others :
        Step("sub", cur, o, NoArg, Sub(heap, objs[cur], objs[IF o = 0 THEN cur ELSE o], o # 0))

DoApplyTo == Step("apply_to", cur, 0, NoArg, ApplyTo(heap, tab, objs[cur]))

\* rpname, rppath and whether the table is passed as rpcoef
RplceArgs ==
    {<<NoArgStr, NoArgStr, TRUE>>,
     <<NoArgStr, NoArgStr, FALSE>>,
     <<OneStr("C20"), OneStr("tn14"), TRUE>>,
     <<OneStr("C20"), OneStr("tn14"), FALSE>>,
     <<OneStr("C30"), OneStr("tn14"), FALSE>>,
     <<OneStr("DEG1"), OneStr("tn13"), FALSE>>,
     <<OneStr("C21"), OneStr("tn14"), FALSE>>,
     <<OneStr("C20"), TupleStr(<<"tn14">>), FALSE>>,
     <<TupleStr(<<"C20", "C30">>), TupleStr(<<"tn14", "tn14">>), FALSE>>,
     <<ListStr(<<"DEG1", "C20">>), ListStr(<<"tn13">>), FALSE>>}

DoRplce ==
    \E a \in RplceArgs :
        Step("rplce", cur, 0,
             [NoArg EXCEPT !.rpname = a[1], !.rppath = a[2], !.rpcoef = a[3]],
             Rplce(heap, objs[cur], tab, a[1], a[2], a[3]))

\* the arguments of a direct call of the constructor: coeffs of cnd dimensions
\* (2-D, one 3-D grid, or a 4-D batch of two grids), errors that are None, of
\* the shape of coeffs, or of another shape (a batch of one grid for a grid, a
\* grid for a batch), and epochs that are an array of epn entries or (epn = 0)
\* a float
RawArr(nd, n, base) ==
    CASE nd = 4 -> MkBatch(2, n, base)
      [] nd = 3 -> Arr(GridShape(2), MkGrid(2, base))
      [] OTHER -> Arr(<<3, 3>>, <<>>)

RawInputs ==
    {r \in [cnd : {2, 3, 4}, err : {"none", "same", "other"}, epn : {0, 1, 2}] :
        r.cnd = 2 => r.epn = 0}

Construct(h, r) ==
    LET c == Alloc(h, RawArr(r.cnd, 2, 400000))
        e == CASE r.err = "none" -> [h |-> c.h, r |-> NoRef]
               [] r.err = "same" -> Alloc(c.h, RawArr(r.cnd, 2, 600000))
               [] OTHER -> Alloc(c.h, RawArr(IF r.cnd = 4 THEN 3 ELSE 4, 1, 600000))
        p == IF r.epn = 0 THEN [h |-> e.h, r |-> NoRef]
             ELSE Alloc(e.h, Arr(<<r.epn>>, [k \in 1..r.epn |-> 201900 + k]))
    IN  SpharmCoeffInit(p.h, c.r, IF r.epn = 0 THEN EpFloat(201900) ELSE EpArr(p.r),
                        "stokes", e.r, NoneStr, NoneStr)

DoConstruct ==
    \E r \in RawInputs :
        Step("init", 0, 0, [NoArg EXCEPT !.cnd = r.cnd, !.err = r.err, !.epn = r.epn],
             Construct(heap, r))

Next ==
    \/ DoConstruct
    \/ DoRplce
    \/ DoApplyTo
    \/ DoCorrGia
    \/ DoSort
    \/ DoRemoveMeanField
    \/ DoSmooth
    \/ DoUnitConvert
    \/ DoGetItem
    \/ DoAdd
    \/ DoSub

\* A pipeline of MaxSteps calls on a series of two epochs, one on each side of
\* the 2018 cutover and out of order, with or without errors, in or out of
\* the stokes unit; B has three epochs and the table is the degree-3 zonal one.
Init ==
    \E err \in BOOLEAN, unit \in {"stokes", "mmewh"} :
        InitWith(SeriesIn(<<201811, 201799>>, 3, 0, err, unit, GsmName),
                 SeriesIn(<<201800, 201700, 201812>>, 3, 10000, FALSE, unit, NoneStr),
                 TableIn("C30", <<201800, 201810>>, TRUE, TnName("C30")),
                 MaxSteps)

Spec == Init /\ [][Next]_vars

\* One __add__ or __sub__ of two series over every pair of epoch sequences.
ArithEpochs == {201800, 201805, 201809, 201900, NaN}

InitArith ==
    \E ea \in SeqsUpTo(ArithEpochs, MaxLen), eb \in SeqsUpTo(ArithEpochs, MaxLen) :
        InitWith(SeriesIn(ea, 3, 0, TRUE, "stokes", GsmName),
                 SeriesIn(eb, 3, 10000, FALSE, "stokes", NoneStr),
                 TableIn("C20", <<201800>>, TRUE, TnName("C20")),
                 1)

NextArith == DoAdd \/ DoSub

SpecArith == InitArith /\ [][NextArith]_vars

\* Two apply_to in a row: of every table of every kind over every epoch
\* sequence on every series, with and without errors on each side, and, on
\* one pair of epoch sequences, with every name of the series and the table.
SeriesEpochs == {201799, 201800, 201806}

TableEpochs == {201800, 201811, NaN}

TableName(tag, kind) ==
    CASE tag = "none" -> NoName
      [] tag = "pair" -> TnName(kind)
      [] OTHER -> SeqName(<<kind>>)

RepInputs ==
    {in \in [ea : SeqsUpTo(SeriesEpochs, MaxLen), et : SeqsUpTo(TableEpochs, MaxLen),
             kind : LowdegKinds, aerr : BOOLEAN, terr : BOOLEAN,
             aname : {NoneStr, GsmName}, tname : {"none", "pair", "bad"}] :
        \/ in.aname = GsmName /\ in.tname = "pair"
        \/ in.ea = <<201799, 201806>> /\ in.et = <<201811, 201800>>}

InitRep ==
    \E in \in RepInputs :
        InitWith(SeriesIn(in.ea, 3, 0, in.aerr, "stokes", in.aname),
                 SeriesIn(<<201800>>, 3, 10000, FALSE, "stokes", NoneStr),
                 TableIn(in.kind, in.et, in.terr, TableName(in.tname, in.kind)),
                 2)

NextRep == DoApplyTo

SpecRep == InitRep /\ [][NextRep]_vars

\* ------------------------------------------------------------------ claims
\* what the claims speak of: the arrays of a series, the series a series was
\* derived from, nearest epochs
CoeffsOf(i) == heap[objs[i].coeffs]

EpochsOf(i) == heap[objs[i].epochs].data

HasErrors(i) == objs[i].errors # NoRef

ErrorsOf(i) == heap[objs[i].errors]

Results(ops) == {r \in DOMAIN objs : hist[r].op \in ops}

Dist(a, b) == IF a < b THEN b - a ELSE a - b

\* the reference epochs that are numbers, and whether one is within tol of t
Numbers(R) == {j \in Indices(R) : R[j] # NaN}

Within(R, t, tol) == t # NaN /\ \E j \in Numbers(R) : Dist(R[j], t) <= tol

\* the first of the nearest numbers of R to t
Nearest(R, t) ==
    CHOOSE j \in Numbers(R) :
        /\ \A k \in Numbers(R) : Dist(R[j], t) <= Dist(R[k], t)
        /\ \A k \in Numbers(R) : k < j => Dist(R[k], t) > Dist(R[j], t)

\* the two alignment paths as the specification words them
OnExactPath(a, b) ==
    /\ CoeffsOf(a).shape = CoeffsOf(b).shape
    /\ \A i \in Indices(EpochsOf(a)) :
          /\ EpochsOf(a)[i] # NaN
          /\ EpochsOf(b)[i] # NaN
          /\ Dist(EpochsOf(a)[i], EpochsOf(b)[i]) <= 50

SamePerEpochShape(a, b) == Tail1(CoeffsOf(a).shape) = Tail1(CoeffsOf(b).shape)

OnMatchedPath(a, b) == SamePerEpochShape(a, b) /\ ~ExactPath(heap, objs[a], objs[b])

\* C1: A - B subtracts on every alignment path: on the exact path the grid at
\* every position i of the result is A.coeffs[i] - B.coeffs[i], on the matched
\* path it is A.coeffs[i] - B.coeffs[match(i)]; it is never a sum.
C1_SubSubtracts ==
    \A r \in Results({"sub"}) :
        LET a == hist[r].self
            b == hist[r].other
        IN  \A i \in Indices(EpochsOf(a)) :
                CoeffsOf(r).data[i] =
                    GridSub(CoeffsOf(a).data[i],
                            CoeffsOf(b).data[IF OnExactPath(a, b) THEN i
                                             ELSE Nearest(EpochsOf(b), EpochsOf(a)[i])])

\* the matched path of C1 alone: there the code does subtract
C1_MatchedSubtracts ==
    \A r \in Results({"sub"}) :
        LET a == hist[r].self
            b == hist[r].other
        IN  OnMatchedPath(a, b) =>
                \A i \in Indices(EpochsOf(a)) :
                    CoeffsOf(r).data[i] =
                        GridSub(CoeffsOf(a).data[i],
                                CoeffsOf(b).data[Nearest(EpochsOf(b), EpochsOf(a)[i])])

C1_MatchedReached ==
    \E r \in Results({"sub"}) :
        /\ OnMatchedPath(hist[r].self, hist[r].other)
        /\ Len(EpochsOf(hist[r].other)) = 2

\* the last call was an __add__ or __sub__ of two series on the matched path
LastCombine ==
    /\ last.op \in {"add", "sub"}
    /\ last.other # 0
    /\ OnMatchedPath(last.self, last.other)

\* every epoch of series a has a number of R within the tight tolerance
AllWithin(a, R) == \A i \in Indices(EpochsOf(a)) : Within(R, EpochsOf(a)[i], 5)

\* the epochs of series a that apply_to of the table does not skip
NotSkipped(a) ==
    {i \in Indices(EpochsOf(a)) :
        ~(tab.indice = ScalarIndice(0, 3, 0) /\ EpochsOf(a)[i] # NaN /\ EpochsOf(a)[i] < 201800)}

TabEpochs == heap[tab.epochs].data

\* C2 for apply_to: a minimum distance of exactly 0.05 is accepted, a greater
\* one rejected
C2_ApplyToBoundary ==
    last.op = "apply_to" =>
        IF \A i \in NotSkipped(last.self) : Within(TabEpochs, EpochsOf(last.self)[i], 5)
        THEN last.exc # "ValueError"
        ELSE last.exc = "ValueError"

\* C2 for the matched path of __add__ and __sub__ (over reference epochs that
\* are all numbers)
C2_CombineBoundary ==
    (LastCombine /\ Numbers(EpochsOf(last.other)) = Indices(EpochsOf(last.other))) =>
        IF AllWithin(last.self, EpochsOf(last.other))
        THEN last.exc = ""
        ELSE last.exc = "ValueError"

\* C2: in both users of the matcher (apply_to and the matched path of __add__
\* and __sub__) a query epoch whose minimum distance to the reference epochs
\* is exactly the tolerance 0.05 is accepted as a match, and any greater
\* distance is rejected.
C2_BoundaryAccepted == C2_ApplyToBoundary /\ C2_CombineBoundary

DifferentBatch(a, b) == CoeffsOf(a).shape[1] # CoeffsOf(b).shape[1]

\* C3: for two series of equal per-epoch grid shape and different batch sizes,
\* A + B and A - B return a series only if every epoch of A has an epoch of B
\* within 0.05 years, and that series is A combined at every epoch with the
\* grid of the nearest epoch of B; if an epoch of A has no such match the call
\* fails and returns no series.
C3_AllOrNothing ==
    /\ \A r \in Results({"add", "sub"}) :
        LET a == hist[r].self
            b == hist[r].other
        IN  (SamePerEpochShape(a, b) /\ DifferentBatch(a, b)) =>
                /\ AllWithin(a, EpochsOf(b))
                /\ \A i \in Indices(EpochsOf(a)) :
                    LET g == CoeffsOf(b).data[Nearest(EpochsOf(b), EpochsOf(a)[i])]
                    IN  CoeffsOf(r).data[i] =
                            IF hist[r].op = "add" THEN GridAdd(CoeffsOf(a).data[i], g)
                            ELSE GridSub(CoeffsOf(a).data[i], g)
    /\ (/\ last.op \in {"add", "sub"}
        /\ last.other # 0
        /\ SamePerEpochShape(last.self, last.other)
        /\ DifferentBatch(last.self, last.other)
        /\ ~AllWithin(last.self, EpochsOf(last.other)))
       => (last.exc # "" /\ last.res = 0 /\ Len(objs) = 2)

\* a __sub__ of a series of two epochs and one of one epoch has failed though
\* one of the two epochs has a match
C3_PartialMatchFails ==
    /\ last.op = "sub"
    /\ last.other = 2
    /\ last.exc = "ValueError"
    /\ DifferentBatch(1, 2)
    /\ \E i \in Indices(EpochsOf(1)) : Within(EpochsOf(2), EpochsOf(1)[i], 4)
    /\ \E i \in Indices(EpochsOf(1)) : ~Within(EpochsOf(2), EpochsOf(1)[i], 5)

\* ------------------------------------------------- claims on replacement
TabCoeffs == heap[tab.coeffs].data

\* the cells of the index set of the table, as (type, degree, order)
ConfiguredCells ==
    CASE tab.indice = ScalarIndice(0, 2, 0) -> <<<<0, 2, 0>>>>
      [] tab.indice = ScalarIndice(0, 3, 0) -> <<<<0, 3, 0>>>>
      [] OTHER -> <<<<0, 1, 0>>, <<0, 1, 1>>, <<1, 1, 1>>>>

IsC30 == tab.indice = ScalarIndice(0, 3, 0)

\* the row of the table matched to epoch i of series s
MatchedRow(s, i) == Nearest(TabEpochs, EpochsOf(s)[i])

\* C4: when the index set of the table is the single cell (0, 3, 0), apply_to
\* leaves the (0, 3, 0) coefficient and error of every epoch t < 2018 as they
\* were and searches no match for it (so it cannot fail for it), and
\* overwrites that of every epoch t >= 2018 with the matched table value; with
\* any other index set no epoch is exempt.
C4_Cutover ==
    /\ \A r \in Results({"apply_to"}) :
        LET s == hist[r].self
        IN  \A i \in Indices(EpochsOf(s)) :
                IF IsC30 /\ EpochsOf(s)[i] < 201800
                THEN /\ CoeffsOf(r).data[i][<<0, 3, 0>>] = CoeffsOf(s).data[i][<<0, 3, 0>>]
                     /\ HasErrors(r) =>
                            ErrorsOf(r).data[i][<<0, 3, 0>>] = ErrorsOf(s).data[i][<<0, 3, 0>>]
                ELSE /\ Within(TabEpochs, EpochsOf(s)[i], 5)
                     /\ \A k \in Indices(ConfiguredCells) :
                            CoeffsOf(r).data[i][ConfiguredCells[k]] = TabCoeffs[MatchedRow(s, i)][k]
    /\ last.op = "apply_to" =>
        LET unmatched == {i \in Indices(EpochsOf(last.self)) :
                            ~Within(TabEpochs, EpochsOf(last.self)[i], 5)}
        IN  /\ (IsC30 /\ \A i \in unmatched : EpochsOf(last.self)[i] < 201800)
                    => last.exc # "ValueError"
            /\ (~IsC30 /\ unmatched # {}) => last.exc = "ValueError"
            /\ (IsC30 /\ \E i \in unmatched : EpochsOf(last.self)[i] >= 201800)
                    => last.exc = "ValueError"

\* apply_to of a degree-3 zonal table that has no epoch near 2017.99 has
\* returned on a series of the epochs 2017.99 and 2018.06: the first grid is
\* as it was, the second one is not
C4_CutoverReached ==
    \E r \in Results({"apply_to"}) :
        /\ IsC30
        /\ EpochsOf(hist[r].self) = <<201799, 201806>>
        /\ ~Within(TabEpochs, 201799, 5)
        /\ CoeffsOf(r).data[1] = CoeffsOf(hist[r].self).data[1]
        /\ CoeffsOf(r).data[2] # CoeffsOf(hist[r].self).data[2]

\* the value of a series: its arrays and attributes
SeriesValIn(h, s) ==
    [coeffs |-> h[s.coeffs], epochs |-> h[s.epochs],
     errors |-> IF s.errors = NoRef THEN Arr(<<>>, <<>>) ELSE h[s.errors],
     absent |-> s.errors = NoRef, unit |-> s.unit, error_kind |-> s.error_kind,
     name |-> s.name, lmax |-> s.lmax]

SeriesVal(i) == SeriesValIn(heap, objs[i])

TableValIn(h, t) ==
    [indice |-> t.indice, coeffs |-> h[t.coeffs], epochs |-> h[t.epochs],
     errors |-> IF t.errors = NoRef THEN Arr(<<>>, <<>>) ELSE h[t.errors],
     absent |-> t.errors = NoRef, unit |-> t.unit, name |-> t.name]

\* the series that are T.apply_to(T.apply_to(S))
AppliedTwice == {r \in Results({"apply_to"}) : hist[hist[r].self].op = "apply_to"}

\* the last call was T.apply_to(T.apply_to(S))
SecondApplied == last.op = "apply_to" /\ hist[last.self].op = "apply_to"

\* C6 as claimed: T.apply_to(T.apply_to(S)) is identical to T.apply_to(S) in
\* coefficients, errors, epochs, unit and provenance name.
C6_Idempotent ==
    /\ SecondApplied => last.exc = ""
    /\ \A r \in AppliedTwice : SeriesVal(r) = SeriesVal(hist[r].self)

\* C6 as amended: T.apply_to(T.apply_to(S)) is identical to T.apply_to(S) in
\* coefficients, errors, epochs and unit; the name is identical when the name
\* of the series or of the table is None, and otherwise it is the name of
\* T.apply_to(S) with the label of the table appended once more.
C6_IdempotentButName ==
    /\ SecondApplied => last.exc = ""
    /\ \A r \in AppliedTwice :
        LET q == hist[r].self
        IN  /\ [SeriesVal(r) EXCEPT !.name = NoneStr] = [SeriesVal(q) EXCEPT !.name = NoneStr]
            /\ objs[r].name =
                IF objs[q].name.none \/ tab.name.none THEN objs[q].name
                ELSE Str(Append(objs[q].name.s, <<tab.name.v[1], tab.name.v[2]>>))

\* a table with a two-part label has been applied twice to a named series,
\* and the first application changed a coefficient
C6_AppliedTwiceReached ==
    \E r \in AppliedTwice :
        /\ ~tab.name.none
        /\ ~objs[r].name.none
        /\ CoeffsOf(hist[r].self) # CoeffsOf(hist[hist[r].self].self)

TabErrors == heap[tab.errors].data

\* C10: the series apply_to returns differs from the input series only in the
\* configured cells at the epochs that are not exempt, which hold the matched
\* table values; the error cells there are overwritten only when both the
\* series and the table carry errors, and otherwise the errors (present or
\* absent) are those of the input; every other coefficient and error cell,
\* the epochs and the unit are unchanged.
C10_WriteSet ==
    \A r \in Results({"apply_to"}) :
        LET s     == hist[r].self
            cells == {ConfiguredCells[k] : k \in Indices(ConfiguredCells)}
            kOf(c) == CHOOSE k \in Indices(ConfiguredCells) : ConfiguredCells[k] = c
        IN  /\ heap[objs[r].epochs] = heap[objs[s].epochs]
            /\ objs[r].unit = objs[s].unit
            /\ CoeffsOf(r).shape = CoeffsOf(s).shape
            /\ \A i \in Indices(EpochsOf(s)) : \A c \in Cells(objs[s].lmax) :
                CoeffsOf(r).data[i][c] =
                    IF i \in NotSkipped(s) /\ c \in cells
                    THEN TabCoeffs[MatchedRow(s, i)][kOf(c)]
                    ELSE CoeffsOf(s).data[i][c]
            /\ HasErrors(r) = HasErrors(s)
            /\ HasErrors(s) =>
                /\ ErrorsOf(r).shape = ErrorsOf(s).shape
                /\ \A i \in Indices(EpochsOf(s)) : \A c \in Cells(objs[s].lmax) :
                    ErrorsOf(r).data[i][c] =
                        IF i \in NotSkipped(s) /\ c \in cells /\ tab.errors # NoRef
                        THEN TabErrors[MatchedRow(s, i)][kOf(c)]
                        ELSE ErrorsOf(s).data[i][c]

\* a degree-1 table without errors has been applied to a series with errors
C10_WriteReached ==
    \E r \in Results({"apply_to"}) :
        /\ Len(ConfiguredCells) = 3
        /\ tab.errors = NoRef
        /\ HasErrors(hist[r].self)
        /\ CoeffsOf(r) # CoeffsOf(hist[r].self)

\* ------------------------------------------------------ claims on series
Perms(n) == {p \in [1..n -> 1..n] : \A i, j \in 1..n : p[i] = p[j] => i = j}

Ascending(e) == \A k \in Indices(e) : \A l \in Indices(e) : k < l => ~SortsBefore(e, l, k)

\* sort has returned r = s.sort(): r has the length of s, its epochs ascend,
\* one permutation takes the epochs, the grids and the error grids of s to
\* those of r, and r.sort() would be r
SortedFrom(r, s) ==
    /\ SeriesLen(heap, objs[r]) = SeriesLen(heap, objs[s])
    /\ Ascending(EpochsOf(r))
    /\ HasErrors(r) = HasErrors(s)
    /\ \E p \in Perms(Len(EpochsOf(s))) :
        \A k \in Indices(EpochsOf(s)) :
            /\ EpochsOf(r)[k] = EpochsOf(s)[p[k]]
            /\ CoeffsOf(r).data[k] = CoeffsOf(s).data[p[k]]
            /\ HasErrors(s) => ErrorsOf(r).data[k] = ErrorsOf(s).data[p[k]]
    /\ LET again == Sort(heap, objs[r])
       IN  /\ again.exc = ""
           /\ SeriesValIn(again.h, again.obj) = SeriesVal(r)

\* C5: for every valid series S, with or without an error batch, S.sort()
\* returns a series of the same length whose epochs ascend and whose grids and
\* error grids are permuted as the epochs are, and S.sort().sort() equals
\* S.sort().
C5_SortReturnsSorted ==
    /\ last.op = "sort" => last.exc = ""
    /\ \A r \in Results({"sort"}) : SortedFrom(r, hist[r].self)

\* C5 for the series that carry errors: there sort does what is claimed
C5_SortWithErrors ==
    /\ (last.op = "sort" /\ HasErrors(last.self)) => last.exc = ""
    /\ \A r \in Results({"sort"}) : SortedFrom(r, hist[r].self)

C5_SortWithErrorsReached ==
    \E r \in Results({"sort"}) : EpochsOf(hist[r].self) = <<201811, 201799>>

\* the arguments of a constructor call that break the shape contract: coeffs
\* neither 3-D nor 4-D, errors of another shape than coeffs, or a number of
\* epochs that is not the number of grids
InvalidRaw(a) ==
    \/ a.cnd \notin {3, 4}
    \/ a.err = "other"
    \/ (IF a.cnd = 4 THEN 2 ELSE 1) # (IF a.epn = 0 THEN 1 ELSE a.epn)

\* C7: every series returned by the constructor or by a transformation has a
\* 4-D coefficient batch with as many grids as epochs (exactly one grid and
\* one epoch when made of a 3-D grid), errors that are absent or of the shape
\* of the coefficients, and the lmax of the series it was derived from; a
\* constructor call that breaks these fails and returns no series.
C7_ShapeInvariants ==
    /\ \A r \in DOMAIN objs :
        /\ Len(CoeffsOf(r).shape) = 4
        /\ CoeffsOf(r).shape[1] = Len(CoeffsOf(r).data)
        /\ heap[objs[r].epochs].shape = <<Len(EpochsOf(r))>>
        /\ Len(CoeffsOf(r).data) = Len(EpochsOf(r))
        /\ Tail1(CoeffsOf(r).shape) = GridShape(objs[r].lmax)
        /\ \A i \in Indices(CoeffsOf(r).data) :
              DOMAIN CoeffsOf(r).data[i] = Cells(objs[r].lmax)
        /\ HasErrors(r) =>
              /\ ErrorsOf(r).shape = CoeffsOf(r).shape
              /\ Len(ErrorsOf(r).data) = Len(CoeffsOf(r).data)
        /\ hist[r].op \notin {"input", "init"} => objs[r].lmax = objs[hist[r].self].lmax
        /\ (hist[r].op = "init" /\ hist[r].arg.cnd = 3) =>
              /\ CoeffsOf(r).shape[1] = 1
              /\ Len(EpochsOf(r)) = 1
    /\ (last.op = "init" /\ InvalidRaw(last.arg)) => (last.exc # "" /\ last.res = 0)

\* a series made of one 3-D grid has been transformed
C7_DerivedReached ==
    \E r \in DOMAIN objs :
        /\ hist[r].op \in {"smooth", "getitem", "add", "sort", "corr_gia"}
        /\ hist[hist[r].self].op = "init"
        /\ hist[hist[r].self].arg.cnd = 3

\* C8: no call of rplce, apply_to, corr_gia, sort, remove_mean_field, smooth,
\* unitconvert, __getitem__, __add__ or __sub__, whether it returns or fails,
\* changes the coeffs, epochs, errors, unit, error_kind, name or lmax of a
\* series that existed before the call (the receiver, the other operand), or
\* the replacement table.
C8_NonMutating ==
    [][/\ \A i \in DOMAIN objs :
            /\ objs'[i] = objs[i]
            /\ SeriesValIn(heap', objs[i]) = SeriesValIn(heap, objs[i])
       /\ tab' = tab
       /\ TableValIn(heap', tab) = TableValIn(heap, tab)]_vars

\* rplce has returned a series that differs from its receiver, after an
\* apply_to that returned one that differs from its receiver
C8_CallsReached ==
    /\ last.op = "rplce"
    /\ last.exc = ""
    /\ CoeffsOf(last.res) # CoeffsOf(last.self)
    /\ \E r \in Results({"apply_to"}) : CoeffsOf(r) # CoeffsOf(hist[r].self)

\* C9: rplce on a series whose unit is not 'stokes' fails before anything is
\* done, whatever its arguments: no replacement table is built, none is
\* applied and no series is returned.
C9_UnitPrecondition ==
    (last.op = "rplce" /\ objs[last.self].unit # "stokes") =>
        /\ last.exc # ""
        /\ last.res = 0
        /\ last.built = 0
        /\ last.applied = 0

\* rplce has failed on a series in mmewh, called with a replacement table or
\* with two named replacements
C9_NonStokesReached ==
    /\ last.op = "rplce"
    /\ objs[last.self].unit = "mmewh"
    /\ last.exc = "AttributeError"
    /\ last.arg.rpcoef \/ last.arg.rpname.type = "tuple"

\* ------------------------------------------- claims on NaN in the matcher
HasNaN(R) == Numbers(R) # Indices(R)

\* every epoch of series a has a number of R strictly inside the tolerance
AllInside(a, R) == \A i \in Indices(EpochsOf(a)) : Within(R, EpochsOf(a)[i], 4)

\* C11 for apply_to: with a NaN among the epochs of the table, an epoch that
\* has a number of the table within tolerance does not fail, and takes the
\* values of the first of the nearest numbers
C11_ApplyToIgnoresNaN ==
    /\ (/\ last.op = "apply_to"
        /\ HasNaN(TabEpochs)
        /\ \A i \in NotSkipped(last.self) : Within(TabEpochs, EpochsOf(last.self)[i], 5))
            => last.exc # "ValueError"
    /\ \A r \in Results({"apply_to"}) :
        LET s == hist[r].self
        IN  \A i \in NotSkipped(s) :
                /\ Within(TabEpochs, EpochsOf(s)[i], 5)
                /\ \A k \in Indices(ConfiguredCells) :
                      CoeffsOf(r).data[i][ConfiguredCells[k]] = TabCoeffs[MatchedRow(s, i)][k]

\* C11 for the matched path of __add__ and __sub__: with a NaN among the
\* epochs of the right operand, a left operand whose every epoch has a number
\* of the right operand inside the tolerance is combined, at every epoch with
\* the grid of the first of the nearest numbers
C11_CombineIgnoresNaN ==
    /\ (/\ LastCombine
        /\ HasNaN(EpochsOf(last.other))
        /\ AllInside(last.self, EpochsOf(last.other)))
            => last.exc = ""
    /\ \A r \in Results({"add", "sub"}) :
        LET a == hist[r].self
            b == hist[r].other
        IN  (OnMatchedPath(a, b) /\ AllInside(a, EpochsOf(b))) =>
                \A i \in Indices(EpochsOf(a)) :
                    LET g == CoeffsOf(b).data[Nearest(EpochsOf(b), EpochsOf(a)[i])]
                    IN  CoeffsOf(r).data[i] =
                            IF hist[r].op = "add" THEN GridAdd(CoeffsOf(a).data[i], g)
                            ELSE GridSub(CoeffsOf(a).data[i], g)

\* C11: the nearest-epoch search of both users of the matcher (apply_to over
\* the epochs of the table, the matched path of __add__ and __sub__ over the
\* epochs of the right operand) ignores the NaN of the reference epochs: a
\* query epoch with a number within tolerance is matched to the nearest
\* number, the first one on ties, and a NaN elsewhere neither wins the match
\* nor makes the call fail.
C11_NaNIgnored == C11_ApplyToIgnoresNaN /\ C11_CombineIgnoresNaN

\* apply_to has returned over a table whose first epoch is NaN
C11_ApplyToNaNReached ==
    \E r \in Results({"apply_to"}) :
        /\ Len(TabEpochs) = 2
        /\ TabEpochs[1] = NaN
        /\ CoeffsOf(r) # CoeffsOf(hist[r].self)

====
